---- MODULE Spec2Model ----
(***************************************************************************)
(* A model of agent-share: the link-or-copy executor (utils/link.ts), the  *)
(* existence matrix and selection stage (utils/prompts.ts) and the driving *)
(* loop of installCommand (commands/install.ts).                           *)
(*                                                                         *)
(* The filesystem is a partial map from paths to entries.  A path is a     *)
(* sequence of segments, so path.join is concatenation and path.dirname    *)
(* drops the last segment.  Every filesystem call that can fail has its    *)
(* outcome chosen nondeterministically (the io record of a call).          *)
(***************************************************************************)
EXTENDS Naturals, Sequences, FiniteSets

VARIABLES
    fs,             \* the filesystem: [existing paths -> entry]
    platform,       \* os.platform()
    lastCall,       \* the most recent linkOrCopy call and its outcome
    prevCall,       \* the linkOrCopy call before it (direct calls only)
    pc,             \* position of installCommand
    opts,           \* the options of the current installCommand run
    targetKeys,     \* installCommand: targetKeys
    types,          \* installCommand: types
    available,      \* installCommand: available[type]
    typeIdx,        \* position of the selection loop over types
    selected,       \* installCommand: selected[type]
    existenceMaps,  \* installCommand: existenceMaps[type]
    targetIdx,      \* position of the loop over targetConfigs
    pairIdx,        \* position of the loops over selected items of a target
    summary,        \* the InstallSummary being accumulated
    summaries,      \* installCommand: summaries
    processed,      \* the (target, type, item) pairs handled so far, in order
    fsAtStart,      \* the filesystem when the current run started
    outcome,        \* how the run ended
    exitCode,       \* process exit code of the run
    faults,         \* linkOrCopy calls in which a filesystem call failed
    input,          \* the source reference handed to parseGitHubUrl
    parsed,         \* what parseGitHubUrl returned or threw
    fetch,          \* the fetchRepo call in progress
    configFile,     \* the persisted configuration (config.json)
    configRun,      \* the last command that used the configuration
    inFlight,       \* the linkOrCopy calls issued and not yet resolved
    invocations     \* config invocations running side by side

vars == <<fs, platform, lastCall, prevCall, pc, opts, targetKeys, types,
          available, typeIdx, selected, existenceMaps, targetIdx, pairIdx,
          summary, summaries, processed, fsAtStart, outcome, exitCode,
          faults, input, parsed, fetch, configFile, configRun, inFlight,
          invocations>>

linkVars == <<fs, lastCall, prevCall>>

auxVars == <<input, parsed, fetch, configFile, configRun, inFlight,
            invocations>>

runVars == <<pc, opts, targetKeys, types, available, typeIdx, selected,
             existenceMaps, targetIdx, pairIdx, summary, summaries,
             processed, fsAtStart, outcome, exitCode>>

(***************************************************************************)
(* Bounds of the model.                                                    *)
(***************************************************************************)
MaxFiles == 2      \* files of the source repository
MaxFaults == 1     \* linkOrCopy calls hit by a filesystem failure

(***************************************************************************)
(* Paths.                                                                  *)
(***************************************************************************)
Join(dir, name) == Append(dir, name)

Dirname(p) == IF Len(p) = 0 THEN p ELSE SubSeq(p, 1, Len(p) - 1)

Basename(p) == p[Len(p)]

IsPrefix(p, q) == Len(p) <= Len(q) /\ SubSeq(q, 1, Len(p)) = p

Ancestors(p) == {SubSeq(p, 1, n) : n \in 1..Len(p)}

(***************************************************************************)
(* The filesystem calls of fs-extra that linkOrCopy uses.                  *)
(***************************************************************************)
EntryKinds == {"dir", "symlink", "copy", "partial"}

Entry(kind, src) == [kind |-> kind, src |-> src]

PathExists(fsm, p) == p \in DOMAIN fsm

Remove(fsm, p) ==
    [q \in {r \in DOMAIN fsm : ~IsPrefix(p, r)} |-> fsm[q]]

EnsureDir(fsm, d) ==
    [q \in DOMAIN fsm \cup Ancestors(d) |->
        IF q \in DOMAIN fsm THEN fsm[q] ELSE Entry("dir", <<>>)]

Put(fsm, p, kind, src) ==
    [q \in DOMAIN fsm \cup {p} |-> IF q = p THEN Entry(kind, src) ELSE fsm[q]]

FsOp(op, p) == [op |-> op, path |-> p]

MutatingOps == {"remove", "ensureDir", "symlink", "copy"}

\* Outcomes of the calls that can fail: TRUE is success.  partial says
\* whether a failed copy leaves a partly written target behind.
IO(remove, ensureDir, symlink, copy, partial) ==
    [remove |-> remove, ensureDir |-> ensureDir, symlink |-> symlink,
     copy |-> copy, partial |-> partial]

NoFault == IO(TRUE, TRUE, TRUE, TRUE, FALSE)

\* A call that throws ends linkOrCopy, so the outcomes of the calls after
\* it are never observed: these are all the distinguishable cases.
IOOutcomes ==
    { NoFault,
      IO(FALSE, TRUE, TRUE, TRUE, FALSE),
      IO(TRUE, FALSE, TRUE, TRUE, FALSE),
      IO(TRUE, TRUE, FALSE, TRUE, FALSE),
      IO(TRUE, TRUE, TRUE, FALSE, FALSE),
      IO(TRUE, TRUE, TRUE, FALSE, TRUE),
      IO(TRUE, TRUE, FALSE, FALSE, FALSE),
      IO(TRUE, TRUE, FALSE, FALSE, TRUE) }

(***************************************************************************)
(* linkOrCopy (utils/link.ts).                                             *)
(***************************************************************************)
Methods == {"symlink", "copy", "other"}

Platforms == {"linux", "win32"}

LinkResult(method, source, target, success, error) ==
    [method |-> method, source |-> source, target |-> target,
     success |-> success, error |-> error]

NoResult == LinkResult("", <<>>, <<>>, FALSE, "")

\* A call that returned: the filesystem it leaves, the calls it issued in
\* order, the issued calls that failed, and the value returned.
Returned(fsm, ops, failed, result) ==
    [fs |-> fsm, ops |-> ops, failed |-> failed, threw |-> FALSE,
     result |-> result]

\* A call that threw.
Thrown(fsm, ops, failed) ==
    [fs |-> fsm, ops |-> ops, failed |-> failed, threw |-> TRUE,
     result |-> NoResult]

ShouldRemove_IgnoresForce(force, fsm, target) == PathExists(fsm, target)

ShouldRemove_Never(force, fsm, target) == FALSE

\* if (force && await fs.pathExists(target))
ShouldRemove(force, fsm, target) == force /\ PathExists(fsm, target)

AlreadyExists_Unchecked(fsm, target) == FALSE

\* if (await fs.pathExists(target)) return { success: false, ... }
AlreadyExists(fsm, target) == PathExists(fsm, target)

TrySymlink_AnyPlatform(method, plat) == method = "symlink"

\* if (method === 'symlink' && os.platform() !== 'win32')
TrySymlink(method, plat) == method = "symlink" /\ plat # "win32"

AfterFailedCopy_RolledBack(before, now) == before

\* fs.copy throws out of linkOrCopy: nothing is caught and nothing undone,
\* the filesystem stays as the calls made so far have left it
AfterFailedCopy(before, now) == now

LinkOrCopy(fsm, source, target, method, force, plat, io) ==
    LET probe == IF force THEN <<FsOp("pathExists", target)>> ELSE <<>>
        rm    == ShouldRemove(force, fsm, target)
        ops1  == IF rm THEN Append(probe, FsOp("remove", target)) ELSE probe
        fs1   == IF rm THEN Remove(fsm, target) ELSE fsm
        ops2  == Append(ops1, FsOp("pathExists", target))
        ops3  == Append(ops2, FsOp("ensureDir", Dirname(target)))
        fs3   == EnsureDir(fs1, Dirname(target))
        sym   == TrySymlink(method, plat)
        ops4  == IF sym THEN Append(ops3, FsOp("symlink", target)) ELSE ops3
        ops5  == Append(ops4, FsOp("copy", target))
        symErr == IF sym THEN {"symlink"} ELSE {}
    IN  IF rm /\ ~io.remove
          THEN Thrown(fsm, ops1, {"remove"})
        ELSE IF AlreadyExists(fs1, target)
          THEN Returned(fs1, ops2, {},
                 LinkResult(method, source, target, FALSE,
                            "Target already exists"))
        ELSE IF ~io.ensureDir
          THEN Thrown(fs1, ops3, {"ensureDir"})
        ELSE IF sym /\ io.symlink
          THEN Returned(Put(fs3, target, "symlink", source), ops4, {},
                 LinkResult("symlink", source, target, TRUE, ""))
        ELSE IF io.copy
          THEN Returned(Put(fs3, target, "copy", source), ops5, symErr,
                 LinkResult("copy", source, target, TRUE, ""))
        ELSE Thrown(AfterFailedCopy(fsm,
                      IF io.partial THEN Put(fs3, target, "partial", source)
                                    ELSE fs3),
                    ops5, symErr \cup {"copy"})

Faulty(r) == IF r.failed = {} THEN 0 ELSE 1

\* The record kept of one linkOrCopy call.
CallRecord(source, target, method, force, before, r) ==
    [made |-> TRUE, source |-> source, target |-> target,
     method |-> method, force |-> force, before |-> before,
     ops |-> r.ops, failed |-> r.failed, threw |-> r.threw,
     result |-> r.result]

NoCall ==
    [made |-> FALSE, source |-> <<>>, target |-> <<>>, method |-> "",
     force |-> FALSE, before |-> <<>>, ops |-> <<>>,
     failed |-> {}, threw |-> FALSE, result |-> NoResult]

(***************************************************************************)
(* Targets (utils/targets.ts).                                             *)
(***************************************************************************)
TARGETS ==
    [k \in {".claude", ".cursor", ".agents"} |->
        [name     |-> CASE k = ".claude" -> "Claude Code"
                        [] k = ".cursor" -> "Cursor"
                        [] OTHER -> "Shared Agents",
         skills   |-> <<k, "skills">>,
         rules    |-> <<k, "rules">>,
         commands |-> <<k, "commands">>,
         agents   |-> IF k = ".agents" THEN <<k>> ELSE <<k, "agents">>,
         settings |-> <<k>>]]

GetTargetConfig(key) ==
    IF key \in DOMAIN TARGETS
      THEN TARGETS[key]
      ELSE [name |-> key, skills |-> <<key, "skills">>,
            rules |-> <<key, "rules">>, commands |-> <<key, "commands">>,
            agents |-> <<key, "agents">>, settings |-> <<key>>]

\* path.join(cwd, targetConfig[type]), relative to cwd
TargetDir(key, type) == GetTargetConfig(key)[type]

(***************************************************************************)
(* Scanners (scanners/*.ts): the files of a repository that a type's glob  *)
(* patterns match, in match order, each with the id derived from its path. *)
(***************************************************************************)
RepoFileOrder ==
    << <<"skills", "a", "SKILL.md">>,
       <<"rules", "a.md">>,
       <<".cursor", "rules", "a.md">> >>

RepoFiles == {RepoFileOrder[n] : n \in 1..Len(RepoFileOrder)}

Repos == {r \in SUBSET RepoFiles : Cardinality(r) <= MaxFiles}

\* path.basename(filePath, '.md')
BasenameMd(p) ==
    CASE Basename(p) = "a.md" -> "a"
      [] Basename(p) = "b.md" -> "b"
      [] OTHER -> Basename(p)

Matches(type, f) ==
    CASE type = "skills" ->
           Basename(f) = "SKILL.md"
           /\ (Len(f) = 1 \/ f[1] = "skills")
      [] type = "rules" ->
           /\ BasenameMd(f) # Basename(f)
           /\ \/ (Len(f) >= 2 /\ f[1] = "rules")
              \/ (Len(f) >= 3 /\ f[1] \in {".cursor", ".claude"}
                              /\ f[2] = "rules")
      [] OTHER -> FALSE

ItemOf(type, f) ==
    [id   |-> IF type = "skills" THEN Basename(Dirname(f)) ELSE BasenameMd(f),
     path |-> f]

RECURSIVE ScanFrom(_, _, _)
ScanFrom(type, repo, n) ==
    IF n > Len(RepoFileOrder) THEN <<>>
    ELSE LET f == RepoFileOrder[n]
         IN  (IF f \in repo /\ Matches(type, f)
                THEN <<ItemOf(type, f)>> ELSE <<>>)
             \o ScanFrom(type, repo, n + 1)

Scan(type, repo) == ScanFrom(type, repo, 1)

(***************************************************************************)
(* selectItemsWithExistenceCheck (utils/prompts.ts).                       *)
(***************************************************************************)
SeqToSet(s) == {s[n] : n \in 1..Len(s)}

ItemIds(items) == {items[n].id : n \in 1..Len(items)}

ExistsInTargets_Unprobed(fsm, items, targetDirs) ==
    [id \in ItemIds(items) |-> [d \in SeqToSet(targetDirs) |-> FALSE]]

\* existsMap[targetDir] = await fs.pathExists(path.join(targetDir, item.id))
ExistsInTargets(fsm, items, targetDirs) ==
    [id \in ItemIds(items) |->
        [d \in SeqToSet(targetDirs) |-> PathExists(fsm, Join(d, id))]]

ExistsInAny_AllTargets(existsInTargets, itemId) ==
    /\ itemId \in DOMAIN existsInTargets
    /\ \A d \in DOMAIN existsInTargets[itemId] : existsInTargets[itemId][d]

\* Object.values(map).some(v => v)
ExistsInAny(existsInTargets, itemId) ==
    /\ itemId \in DOMAIN existsInTargets
    /\ \E d \in DOMAIN existsInTargets[itemId] : existsInTargets[itemId][d]

\* the selectAll branch
SelectAllItems(items, mode, existsInTargets) ==
    IF mode = "install"
      THEN SelectSeq(items, LAMBDA i : ~ExistsInAny(existsInTargets, i.id))
      ELSE items

\* items.filter(i => selectedIds.includes(i.id))
SelectByIds(items, selectedIds) ==
    SelectSeq(items, LAMBDA i : i.id \in selectedIds)

(***************************************************************************)
(* installCommand (commands/install.ts).                                   *)
(***************************************************************************)
Modes == {"install", "update"}

TargetKeyChoices == { <<".claude">>, <<".claude", ".cursor">> }

TypeChoices == { <<"rules">>, <<"skills", "rules">> }

TargetDirs(keys, type) == [n \in 1..Len(keys) |-> TargetDir(keys[n], type)]

Force_Always(mode) == TRUE

Force_Never(mode) == FALSE

\* const force = mode === 'update'
Force(mode) == mode = "update"

SkipPair_AnyMode(mode, existsInThisTarget) == existsInThisTarget

SkipPair_Never(mode, existsInThisTarget) == FALSE

\* if (mode === 'install' && existsInThisTarget)
SkipPair(mode, existsInThisTarget) == mode = "install" /\ existsInThisTarget

\* Object.entries(selected), flattened: selected is filled in the order of
\* types, for the types that have available items.
RECURSIVE FlatFrom(_, _, _)
FlatFrom(tps, sel, n) ==
    IF n > Len(tps) THEN <<>>
    ELSE (IF tps[n] \in DOMAIN sel
            THEN [k \in 1..Len(sel[tps[n]]) |->
                    [type |-> tps[n], item |-> sel[tps[n]][k]]]
            ELSE <<>>)
         \o FlatFrom(tps, sel, n + 1)

FlatSelected(tps, sel) == FlatFrom(tps, sel, 1)

NewSummary(key) ==
    [target |-> key, installed |-> 0, skipped |-> 0, failed |-> 0]

NoSummary == NewSummary("")

Count_SkippedUncounted(s, what) ==
    CASE what = "installed" -> [s EXCEPT !.installed = @ + 1]
      [] what = "skipped"   -> s
      [] OTHER              -> [s EXCEPT !.failed = @ + 1]

Count_FailedAsInstalled(s, what) ==
    IF what = "skipped" THEN [s EXCEPT !.skipped = @ + 1]
    ELSE [s EXCEPT !.installed = @ + 1]

\* summary.installed++ / summary.skipped++ / summary.failed++
Count(s, what) ==
    CASE what = "installed" -> [s EXCEPT !.installed = @ + 1]
      [] what = "skipped"   -> [s EXCEPT !.skipped = @ + 1]
      [] OTHER              -> [s EXCEPT !.failed = @ + 1]

Empty == [x \in {} |-> x]

\* An entry left at a target path by an earlier installation, made from
\* another checkout of the source.
Earlier == Entry("symlink", <<"earlier">>)

RECURSIVE WithEarlier(_)
WithEarlier(paths) ==
    IF paths = {} THEN Empty
    ELSE LET p == CHOOSE q \in paths : TRUE
         IN  Put(EnsureDir(WithEarlier(paths \ {p}), Dirname(p)),
                 p, Earlier.kind, Earlier.src)

\* The target paths the items of the repository are installed at.
InstallPaths ==
    {Join(TargetDir(k, t), "a") : k \in {".claude", ".cursor"},
                                  t \in {"skills", "rules"}}

\* The parts of the state the install run does not use, at rest.
NoParse ==
    [done |-> FALSE, threw |-> FALSE, owner |-> <<>>, repo |-> <<>>,
     branch |-> <<>>, subpath |-> <<>>, error |-> <<>>]

NoFetch ==
    [pc |-> "idle", exists |-> FALSE, ref |-> NoParse, tempDir |-> FALSE,
     branches |-> <<>>, attempts |-> <<>>, wrote |-> FALSE,
     extracted |-> FALSE, result |-> [kind |-> "", path |-> <<>>],
     threw |-> FALSE, error |-> <<>>]

NoConfigFile == [exists |-> FALSE, readable |-> TRUE, content |-> Empty]

NoConfigRun ==
    [cmd |-> "", options |-> [show |-> FALSE, target |-> "", method |-> ""],
     before |-> NoConfigFile, loaded |-> Empty, messages |-> <<>>,
     exit |-> 0, writes |-> 0]

AuxIdle ==
    /\ input = <<>>
    /\ parsed = NoParse
    /\ fetch = NoFetch
    /\ configFile = NoConfigFile
    /\ configRun = NoConfigRun
    /\ invocations = Empty

InitRun(paths) ==
    /\ fs \in {WithEarlier(ps) : ps \in SUBSET paths}
    /\ faults = 0
    /\ platform \in Platforms
    /\ lastCall = NoCall
    /\ prevCall = NoCall
    /\ pc = "idle"
    /\ opts = [mode |-> "", all |-> FALSE, method |-> ""]
    /\ targetKeys = <<>>
    /\ types = <<>>
    /\ available = Empty
    /\ typeIdx = 0
    /\ selected = Empty
    /\ existenceMaps = Empty
    /\ targetIdx = 0
    /\ pairIdx = 0
    /\ summary = NoSummary
    /\ summaries = <<>>
    /\ processed = <<>>
    /\ fsAtStart = fs
    /\ outcome = ""
    /\ exitCode = 0
    /\ inFlight = <<>>

InitWith(paths) == InitRun(paths) /\ AuxIdle

Init == InitWith(InstallPaths)

\* Steps 1-4: the source is resolved, the targets and the types are
\* determined and every type is scanned.
InstallStart(mode, all, method, keys, tps, repo) ==
    /\ pc = "idle"
    /\ pc' = "select"
    /\ opts' = [mode |-> mode, all |-> all, method |-> method]
    /\ targetKeys' = keys
    /\ types' = tps
    /\ available' = [t \in SeqToSet(tps) |-> Scan(t, repo)]
    /\ typeIdx' = 1
    /\ selected' = Empty
    /\ existenceMaps' = Empty
    /\ targetIdx' = 0
    /\ pairIdx' = 0
    /\ summary' = NoSummary
    /\ summaries' = <<>>
    /\ processed' = <<>>
    /\ fsAtStart' = fs
    /\ outcome' = ""
    /\ exitCode' = 0
    /\ lastCall' = NoCall
    /\ UNCHANGED <<fs, platform, prevCall, faults>>
    /\ UNCHANGED auxVars

\* Step 5, one type of the loop: the existence matrix of the type is built
\* and the items are selected, by selectAll or by the user's answer.
SelectItems(selectedIds) ==
    /\ pc = "select"
    /\ typeIdx <= Len(types)
    /\ LET type == types[typeIdx]
           items == available[type]
           eit == ExistsInTargets(fs, items, TargetDirs(targetKeys, type))
       IN  IF Len(items) > 0
             THEN /\ selectedIds \subseteq ItemIds(items)
                  /\ opts.all => selectedIds = {}
                  /\ selected' =
                       [t \in DOMAIN selected \cup {type} |->
                          IF t = type
                            THEN IF opts.all
                                   THEN SelectAllItems(items, opts.mode, eit)
                                   ELSE SelectByIds(items, selectedIds)
                            ELSE selected[t]]
                  /\ existenceMaps' =
                       [t \in DOMAIN existenceMaps \cup {type} |->
                          IF t = type THEN eit ELSE existenceMaps[t]]
             ELSE /\ selectedIds = {}
                  /\ UNCHANGED <<selected, existenceMaps>>
    /\ typeIdx' = typeIdx + 1
    /\ pc' = IF typeIdx = Len(types) THEN "confirm" ELSE "select"
    /\ UNCHANGED <<fs, platform, lastCall, prevCall, opts, targetKeys, types,
                   available, targetIdx, pairIdx, summary, summaries,
                   processed, fsAtStart, outcome, exitCode, faults>>
    /\ UNCHANGED auxVars

Confirm_MissingReturn(proceed) ==
    /\ pc = "confirm"
    /\ LET totalSelected == Len(FlatSelected(types, selected))
       IN  IF totalSelected = 0
             THEN /\ proceed
                  /\ pc' = "done"
                  /\ outcome' = "nothing"
                  /\ UNCHANGED <<targetIdx, pairIdx, summary>>
           ELSE /\ pc' = "exec"
                /\ outcome' = IF proceed THEN "" ELSE "cancelled"
                /\ targetIdx' = 1
                /\ pairIdx' = 1
                /\ summary' = NewSummary(targetKeys[1])
    /\ UNCHANGED <<fs, platform, lastCall, prevCall, opts, targetKeys, types,
                   available, typeIdx, selected, existenceMaps, summaries,
                   processed, fsAtStart, exitCode, faults>>
    /\ UNCHANGED auxVars

\* Step 6: nothing selected, or the user's answer to the confirmation.
Confirm(proceed) ==
    /\ pc = "confirm"
    /\ LET totalSelected == Len(FlatSelected(types, selected))
       IN  IF totalSelected = 0
             THEN /\ proceed
                  /\ pc' = "done"
                  /\ outcome' = "nothing"
                  /\ UNCHANGED <<targetIdx, pairIdx, summary>>
           ELSE IF ~proceed
             THEN /\ pc' = "done"
                  /\ outcome' = "cancelled"
                  /\ UNCHANGED <<targetIdx, pairIdx, summary>>
           ELSE /\ pc' = "exec"
                /\ outcome' = ""
                /\ targetIdx' = 1
                /\ pairIdx' = 1
                /\ summary' = NewSummary(targetKeys[1])
    /\ UNCHANGED <<fs, platform, lastCall, prevCall, opts, targetKeys, types,
                   available, typeIdx, selected, existenceMaps, summaries,
                   processed, fsAtStart, exitCode, faults>>
    /\ UNCHANGED auxVars

Outcome_ExistsAsSkipped(skip, r) ==
    IF skip \/ (~r.threw /\ r.result.error = "Target already exists")
      THEN "skipped"
    ELSE IF ~r.threw /\ r.result.success THEN "installed"
    ELSE "failed"

\* the counter of a pair: skipped without a call; result.success:
\* installed; a failure result or an error thrown lands in the catch
\* block: failed
Outcome(skip, r) ==
    IF skip THEN "skipped"
    ELSE IF ~r.threw /\ r.result.success THEN "installed"
    ELSE "failed"

\* Step 7, one (item, target) pair of the loops; after the last pair of a
\* target its summary is pushed, after the last target the run is complete.
ProcessPair(io) ==
    /\ pc = "exec"
    /\ \E flat \in {FlatSelected(types, selected)} :
       \E r \in {LinkOrCopy(fs, Dirname(flat[pairIdx].item.path),
                            Join(TargetDir(targetKeys[targetIdx],
                                           flat[pairIdx].type),
                                 flat[pairIdx].item.id),
                            opts.method, Force(opts.mode), platform, io)} :
       LET key == targetKeys[targetIdx]
           type == flat[pairIdx].type
           item == flat[pairIdx].item
           targetDir == TargetDir(key, type)
           existsInThisTarget == existenceMaps[type][item.id][targetDir]
           sourcePath == Dirname(item.path)
           targetPath == Join(targetDir, item.id)
           skip == SkipPair(opts.mode, existsInThisTarget)
           what == Outcome(skip, r)
           counted == Count(summary, what)
           lastPair == pairIdx = Len(flat)
           lastTarget == targetIdx = Len(targetKeys)
       IN  /\ IF skip
                THEN /\ io = NoFault
                     /\ UNCHANGED <<fs, lastCall, faults>>
                ELSE /\ faults + Faulty(r) <= MaxFaults
                     /\ faults' = faults + Faulty(r)
                     /\ fs' = r.fs
                     /\ lastCall' = CallRecord(sourcePath, targetPath,
                                       opts.method, Force(opts.mode), fs, r)
           /\ processed' = Append(processed,
                 [target |-> targetIdx, key |-> key, type |-> type,
                  item |-> item, path |-> targetPath,
                  exists |-> existsInThisTarget,
                  present |-> PathExists(fs, targetPath),
                  called |-> ~skip,
                  force |-> ~skip /\ Force(opts.mode),
                  threw |-> ~skip /\ r.threw,
                  success |-> ~skip /\ ~r.threw /\ r.result.success,
                  faulty |-> ~skip /\ r.failed # {}])
           /\ IF lastPair
                THEN /\ summaries' = Append(summaries, counted)
                     /\ pairIdx' = 1
                     /\ targetIdx' = targetIdx + 1
                     /\ summary' = IF lastTarget THEN NoSummary
                                   ELSE NewSummary(targetKeys[targetIdx + 1])
                     /\ pc' = IF lastTarget THEN "done" ELSE "exec"
                     /\ outcome' = IF lastTarget THEN "complete" ELSE ""
                ELSE /\ summary' = counted
                     /\ pairIdx' = pairIdx + 1
                     /\ UNCHANGED <<summaries, targetIdx, pc, outcome>>
    /\ UNCHANGED <<platform, prevCall, opts, targetKeys, types, available,
                   typeIdx, selected, existenceMaps, fsAtStart, exitCode>>
    /\ UNCHANGED auxVars

PromptPositions_InLoop == {"idle", "select", "confirm", "exec"}

\* The positions at which installCommand waits at a prompt: target and type
\* selection (steps 2-3), item selection (step 5), confirmation (step 6).
PromptPositions == {"idle", "select", "confirm"}

\* A prompt is open at the current position.
AtPrompt ==
    /\ pc \in PromptPositions
    /\ pc = "select" =>
         /\ typeIdx <= Len(types)
         /\ ~opts.all
         /\ Len(available[types[typeIdx]]) > 0
    /\ pc = "confirm" => Len(FlatSelected(types, selected)) > 0

\* handleCancel: the user aborts at a prompt, process.exit(0).
Cancel ==
    /\ AtPrompt
    /\ pc' = "done"
    /\ outcome' = "aborted"
    /\ exitCode' = 0
    /\ UNCHANGED <<fs, platform, lastCall, prevCall, opts, targetKeys, types,
                   available, typeIdx, selected, existenceMaps, targetIdx,
                   pairIdx, summary, summaries, processed, fsAtStart, faults>>
    /\ UNCHANGED auxVars

FatalPositions_InLoop == {"idle", "select", "exec"}

\* The positions at which an error reaches the outer catch block: source
\* resolution and scanning (steps 1-4) and the existence checks of the
\* selection (step 5).
FatalPositions == {"idle", "select"}

\* The outer catch block: the error is reported, process.exit(1).
Fail ==
    /\ pc \in FatalPositions
    /\ pc' = "done"
    /\ outcome' = "error"
    /\ exitCode' = 1
    /\ UNCHANGED <<fs, platform, lastCall, prevCall, opts, targetKeys, types,
                   available, typeIdx, selected, existenceMaps, targetIdx,
                   pairIdx, summary, summaries, processed, fsAtStart, faults>>
    /\ UNCHANGED auxVars

Next ==
    \/ \E mode \in Modes, all \in BOOLEAN, method \in {"symlink", "copy"},
          keys \in TargetKeyChoices, tps \in TypeChoices, repo \in Repos :
            InstallStart(mode, all, method, keys, tps, repo)
    \/ \E selectedIds \in SUBSET {"a", "b"} : SelectItems(selectedIds)
    \/ \E proceed \in BOOLEAN : Confirm(proceed)
    \/ \E io \in IOOutcomes : ProcessPair(io)
    \/ Cancel
    \/ Fail

Spec == Init /\ [][Next]_vars

(***************************************************************************)
(* linkOrCopy called directly, as its unit tests call it.                  *)
(***************************************************************************)
DirectSources == { <<"skills", "a">>, <<"rules">> }

DirectTargets == { <<".claude", "skills", "a">>, <<".claude", "rules", "a">> }

InitLink == InitWith(DirectTargets)

DirectCall(source, target, method, force, io) ==
    /\ ~prevCall.made
    /\ \E r \in {LinkOrCopy(fs, source, target, method, force, platform, io)} :
           /\ faults + Faulty(r) <= MaxFaults
           /\ faults' = faults + Faulty(r)
           /\ fs' = r.fs
           /\ lastCall' = CallRecord(source, target, method, force, fs, r)
           /\ prevCall' = lastCall
    /\ UNCHANGED platform
    /\ UNCHANGED runVars
    /\ UNCHANGED auxVars

NextLink ==
    \E source \in DirectSources, target \in DirectTargets,
       method \in Methods, force \in BOOLEAN, io \in IOOutcomes :
         DirectCall(source, target, method, force, io)

SpecLink == InitLink /\ [][NextLink]_vars

(***************************************************************************)
(* Properties of linkOrCopy, checked under SpecLink.                       *)
(***************************************************************************)
Mutates(ops) == \E n \in 1..Len(ops) : ops[n].op \in MutatingOps

Issued(ops, op) == \E n \in 1..Len(ops) : ops[n].op = op

\* every op1 of ops comes before every op2 of ops
Precedes(ops, op1, op2) ==
    \A m, n \in 1..Len(ops) :
        (ops[m].op = op1 /\ ops[n].op = op2) => m < n

ExistedBefore(call) == PathExists(call.before, call.target)

AlreadyExistsFailure(call) ==
    /\ ~call.threw
    /\ call.result.success = FALSE
    /\ call.result.error = "Target already exists"
    /\ call.result.method = call.method
    /\ call.result.source = call.source
    /\ call.result.target = call.target

\* C1: linkOrCopy with force=false on a target path that exists returns
\* (does not throw) a result with success=false and error 'Target already
\* exists', and issues no remove, ensureDir, symlink or copy: the
\* filesystem is as it was before the call.
C1_ExistingTargetNoForce ==
    (lastCall.made /\ ~lastCall.force /\ ExistedBefore(lastCall))
    => /\ AlreadyExistsFailure(lastCall)
       /\ ~Mutates(lastCall.ops)
       /\ fs = lastCall.before

C1_Witness ==
    /\ lastCall.made /\ ~lastCall.force /\ ExistedBefore(lastCall)
    /\ lastCall.result.error = "Target already exists"

\* C2: two consecutive calls with force=false on the same (source, target),
\* the target absent before the first: the first call, unless a filesystem
\* call makes it throw, returns success; the second then returns the
\* 'Target already exists' failure without throwing, issues no mutating
\* call and leaves the filesystem exactly as the first call left it.
C2_Idempotence ==
    ( /\ prevCall.made /\ lastCall.made
      /\ prevCall.source = lastCall.source
      /\ prevCall.target = lastCall.target
      /\ ~prevCall.force /\ ~lastCall.force
      /\ ~ExistedBefore(prevCall)
      /\ ~prevCall.threw )
    => /\ prevCall.result.success
       /\ PathExists(lastCall.before, lastCall.target)
       /\ AlreadyExistsFailure(lastCall)
       /\ ~Mutates(lastCall.ops)
       /\ fs = lastCall.before

C2_Witness ==
    /\ prevCall.made /\ lastCall.made
    /\ prevCall.source = lastCall.source
    /\ prevCall.target = lastCall.target
    /\ ~prevCall.force /\ ~lastCall.force
    /\ ~ExistedBefore(prevCall)
    /\ prevCall.result.success
    /\ lastCall.result.error = "Target already exists"

\* C3: linkOrCopy with force=true on a target that exists issues the remove
\* before any symlink or copy call, and when no filesystem call fails it
\* returns success=true with the target present, freshly made from source.
C3_ForceRemovesFirst ==
    (lastCall.made /\ lastCall.force /\ ExistedBefore(lastCall))
    => /\ Issued(lastCall.ops, "remove")
       /\ Precedes(lastCall.ops, "remove", "symlink")
       /\ Precedes(lastCall.ops, "remove", "copy")
       /\ lastCall.failed = {}
            => /\ ~lastCall.threw
               /\ lastCall.result.success
               /\ PathExists(fs, lastCall.target)
               /\ fs[lastCall.target] =
                    Entry(lastCall.result.method, lastCall.source)

C3_Witness ==
    /\ lastCall.made /\ lastCall.force /\ ExistedBefore(lastCall)
    /\ lastCall.failed = {}
    /\ lastCall.result.success
    /\ Issued(lastCall.ops, "remove")

\* C4: the method recorded by a successful linkOrCopy is the one used.  It
\* is 'symlink' exactly when symlink was requested, the platform is not
\* win32 and the symlink call succeeded; a failed symlink call is followed
\* by the copy and the result is success with method 'copy'; on win32, and
\* when 'copy' is requested, no symlink call is issued.
C4_RecordedMethod ==
    lastCall.made =>
      /\ (lastCall.method # "symlink" \/ platform = "win32")
           => ~Issued(lastCall.ops, "symlink")
      /\ (~lastCall.threw /\ lastCall.result.success) =>
           /\ lastCall.result.method \in {"symlink", "copy"}
           /\ fs[lastCall.target] =
                Entry(lastCall.result.method, lastCall.source)
           /\ lastCall.result.method = "symlink"
                <=> /\ lastCall.method = "symlink"
                    /\ platform # "win32"
                    /\ Issued(lastCall.ops, "symlink")
                    /\ "symlink" \notin lastCall.failed
           /\ lastCall.result.method = "copy"
                <=> Issued(lastCall.ops, "copy")
           /\ platform = "win32" => lastCall.result.method = "copy"
      /\ ("symlink" \in lastCall.failed /\ "copy" \notin lastCall.failed)
           => /\ ~lastCall.threw
              /\ lastCall.result.success
              /\ lastCall.result.method = "copy"

C4_Witness ==
    /\ lastCall.made
    /\ lastCall.method = "symlink"
    /\ "symlink" \in lastCall.failed
    /\ lastCall.result.success
    /\ lastCall.result.method = "copy"
    /\ fs[lastCall.target].kind = "copy"

(***************************************************************************)
(* Properties of installCommand, checked under Spec.                       *)
(***************************************************************************)
Flat == FlatSelected(types, selected)

AllAvailable == FlatSelected(types, available)

Executing == pc = "exec" \/ (pc = "done" /\ outcome = "complete")

NumberOf(S) == Cardinality(S)

PairsOf(k) == {n \in 1..Len(processed) : processed[n].target = k}

PairFailed(e) == e.called /\ (e.threw \/ ~e.success)

PairInstalled(e) == e.called /\ ~e.threw /\ e.success

\* the summary of target k: pushed, being accumulated, or not begun
SummaryOf(k) ==
    IF k <= Len(summaries) THEN summaries[k]
    ELSE IF pc = "exec" /\ k = targetIdx THEN summary
    ELSE NewSummary(targetKeys[k])

InstalledBefore(path) == PathExists(fsAtStart, path)

\* C5: a linkOrCopy call that throws or returns a failure result increments
\* the failed counter of its own target and of no other, and the loop goes
\* on: the pairs are processed in order, each (selected item, target) pair
\* exactly once, whatever failed before.  While the loop runs its position
\* is the pair after the last one processed, so the next pair is taken up.
C5_FailureIsolation ==
    Executing =>
      /\ \A n \in 1..Len(processed) :
           /\ processed[n].target = ((n - 1) \div Len(Flat)) + 1
           /\ processed[n].key = targetKeys[processed[n].target]
           /\ processed[n].type = Flat[((n - 1) % Len(Flat)) + 1].type
           /\ processed[n].item = Flat[((n - 1) % Len(Flat)) + 1].item
      /\ \A k \in 1..Len(targetKeys) :
           /\ SummaryOf(k).target = targetKeys[k]
           /\ SummaryOf(k).failed =
                NumberOf({n \in PairsOf(k) : PairFailed(processed[n])})
           /\ SummaryOf(k).installed =
                NumberOf({n \in PairsOf(k) : PairInstalled(processed[n])})
      /\ pc = "exec" => /\ targetIdx \in 1..Len(targetKeys)
                        /\ pairIdx \in 1..Len(Flat)
                        /\ Len(processed) =
                             (targetIdx - 1) * Len(Flat) + pairIdx - 1
      /\ pc = "done" => /\ Len(processed) = Len(targetKeys) * Len(Flat)
                        /\ Len(summaries) = Len(targetKeys)
                        /\ exitCode = 0

C5_Witness ==
    /\ pc = "done" /\ outcome = "complete"
    /\ \E m, n \in 1..Len(processed) :
         /\ m < n
         /\ processed[m].threw
         /\ processed[m].target = processed[n].target
         /\ PairInstalled(processed[n])
    /\ \E m \in 1..Len(processed) :
         PairFailed(processed[m]) /\ ~processed[m].threw

\* C6: in install mode a pair whose item already exists in that target is
\* counted as skipped without a linkOrCopy call, and the item is still
\* handed to linkOrCopy for every target where it does not exist, which
\* installs it there when the path is free and no filesystem call fails.
\* For one item and two targets, present in the first only, the summaries
\* are skipped == 1 for the first and installed == 1 for the second.
C6_InstallSkipsPerTarget ==
    (opts.mode = "install" /\ Executing) =>
      /\ \A n \in 1..Len(processed) :
           LET e == processed[n]
           IN  /\ InstalledBefore(e.path) => ~e.called
               /\ ~InstalledBefore(e.path) => e.called
               /\ (e.called /\ ~e.present /\ ~e.faulty) => PairInstalled(e)
      /\ \A k \in 1..Len(targetKeys) :
           SummaryOf(k).skipped =
             NumberOf({n \in PairsOf(k) : InstalledBefore(processed[n].path)})
      /\ ( /\ pc = "done" /\ Len(targetKeys) = 2 /\ Len(Flat) = 1
           /\ InstalledBefore(processed[1].path)
           /\ ~InstalledBefore(processed[2].path)
           /\ faults = 0 )
         => /\ summaries[1] =
                 [NewSummary(targetKeys[1]) EXCEPT !.skipped = 1]
            /\ summaries[2] =
                 [NewSummary(targetKeys[2]) EXCEPT !.installed = 1]
            /\ fs[processed[1].path] = fsAtStart[processed[1].path]
            /\ PathExists(fs, processed[2].path)

C6_Witness ==
    /\ opts.mode = "install" /\ pc = "done" /\ outcome = "complete"
    /\ Len(targetKeys) = 2 /\ Len(Flat) = 1
    /\ InstalledBefore(processed[1].path)
    /\ ~processed[1].called
    /\ processed[2].called
    /\ summaries[1].skipped = 1
    /\ summaries[2].installed = 1

\* C7: in update mode every pair is handed to linkOrCopy with force=true,
\* no pair is counted as skipped, and when an entry is present at the
\* target path the remove is issued before the symlink or copy.
C7_UpdateForces ==
    (opts.mode = "update" /\ Executing) =>
      /\ \A n \in 1..Len(processed) :
           processed[n].called /\ processed[n].force
      /\ \A k \in 1..Len(targetKeys) : SummaryOf(k).skipped = 0
      /\ lastCall.made =>
           /\ lastCall.force
           /\ ExistedBefore(lastCall) =>
                /\ Issued(lastCall.ops, "remove")
                /\ Precedes(lastCall.ops, "remove", "symlink")
                /\ Precedes(lastCall.ops, "remove", "copy")

C7_Witness ==
    /\ opts.mode = "update" /\ pc = "done" /\ outcome = "complete"
    /\ lastCall.made /\ lastCall.force /\ ExistedBefore(lastCall)
    /\ Issued(lastCall.ops, "remove")
    /\ lastCall.result.success
    /\ InstalledBefore(lastCall.target)

\* One discovered item, one target, the item installed there before the
\* run, and the run goes through: the user confirms, nothing aborts it.
Rerun(mode) ==
    /\ pc = "done" /\ outcome \in {"complete", "nothing"}
    /\ opts.mode = mode
    /\ Len(targetKeys) = 1
    /\ Len(AllAvailable) = 1
    /\ InstalledBefore(Join(TargetDir(targetKeys[1], AllAvailable[1].type),
                            AllAvailable[1].item.id))

SkippedOnce ==
    /\ Len(summaries) = 1
    /\ summaries[1] = [NewSummary(targetKeys[1]) EXCEPT !.skipped = 1]

InstalledOnce ==
    /\ Len(summaries) = 1
    /\ summaries[1] = [NewSummary(targetKeys[1]) EXCEPT !.installed = 1]

AbsentFromEveryTarget(type, item) ==
    \A n \in 1..Len(targetKeys) :
        ~InstalledBefore(Join(TargetDir(targetKeys[n], type), item.id))

C10_UpdateExistingOnly ==
    (opts.mode = "update" /\ opts.all) =>
      \A n \in 1..Len(processed) :
        /\ PairInstalled(processed[n]) => InstalledBefore(processed[n].path)
        /\ ~InstalledBefore(processed[n].path)
             => ~PathExists(fs, processed[n].path)

\* C11: when nothing is selected over all types, or the user declines the
\* confirmation, installCommand returns without a linkOrCopy call for any
\* pair: the filesystem is as it was when the run started, no summary is
\* pushed and the exit code is not 1.  The loop is entered only with
\* something selected.
C11_NoOpShortCircuit ==
    /\ outcome \in {"nothing", "cancelled"}
         => /\ pc = "done"
            /\ exitCode = 0
            /\ processed = <<>>
            /\ ~lastCall.made
            /\ fs = fsAtStart
            /\ summaries = <<>>
    /\ outcome = "nothing" => Len(Flat) = 0
    /\ outcome = "cancelled" => Len(Flat) > 0
    /\ (pc = "exec" \/ outcome = "complete") => Len(Flat) > 0

C11_Witness ==
    /\ outcome = "cancelled"
    /\ opts.mode = "update"
    /\ \E n \in 1..Len(Flat) :
         InstalledBefore(Join(TargetDir(targetKeys[1], Flat[n].type),
                              Flat[n].item.id))
    /\ fs = fsAtStart

\* C12: every prompt comes before the first linkOrCopy call, and the user's
\* abort at a prompt ends the process there with exit code 0: no target
\* path has been created, removed or modified, and none will be.
C12_CancelIsClean ==
    /\ pc \in {"idle", "select", "confirm"}
         => /\ ~lastCall.made
            /\ processed = <<>>
            /\ fs = fsAtStart
    /\ outcome = "aborted"
         => /\ pc = "done"
            /\ exitCode = 0
            /\ ~lastCall.made
            /\ processed = <<>>
            /\ summaries = <<>>
            /\ fs = fsAtStart

C12_Witness ==
    /\ outcome = "aborted"
    /\ exitCode = 0
    /\ typeIdx > Len(types)
    /\ Len(Flat) > 0
    /\ fs = fsAtStart

\* C13: the exit code is 1 only when an error was raised before the loop
\* over the pairs (source resolution, scanning, selection); once a pair has
\* been processed, however many pairs fail, the run reaches the final
\* summary with one summary per target and exit code 0.
C13_ItemFailuresNotFatal ==
    /\ exitCode \in {0, 1}
    /\ exitCode = 1 <=> outcome = "error"
    /\ outcome = "error" => (pc = "done" /\ processed = <<>> /\ ~lastCall.made)
    /\ pc = "exec" => exitCode = 0
    /\ (pc = "done" /\ processed # <<>>)
         => /\ outcome = "complete"
            /\ exitCode = 0
            /\ Len(summaries) = Len(targetKeys)

C13_Witness ==
    /\ outcome = "complete"
    /\ exitCode = 0
    /\ \E k \in 1..Len(summaries) :
         summaries[k].failed >= 1 /\ summaries[k].installed = 0

(***************************************************************************)
(* parseGitHubUrl (utils/repo.ts).  A string is a sequence of atoms: "/"   *)
(* and pieces of text without a slash, none of which combine into ".git".  *)
(***************************************************************************)
MaxSegments == 5   \* path segments of a source reference

Undefined == <<"undefined">>

SegmentChoices == { <<>>, <<"a">>, <<"a", ".git">>, <<".git", "a">>, <<"tree">> }

Prefixes ==
    { <<>>,
      <<"https:", "/", "/", "github.com", "/">>,
      <<"http:", "/", "/", "github.com", "/">>,
      <<"https:", "/", "/", "gitlab.com", "/">> }

RECURSIVE JoinSegs(_)
JoinSegs(segs) ==
    IF Len(segs) = 0 THEN <<>>
    ELSE IF Len(segs) = 1 THEN segs[1]
    ELSE segs[1] \o <<"/">> \o JoinSegs(Tail(segs))

Inputs ==
    { p \o JoinSegs(ss) :
        p \in Prefixes,
        ss \in UNION {[1..n -> SegmentChoices] : n \in 0..MaxSegments} }

\* position of the first a in s, 0 when there is none
IndexOf(s, a) ==
    IF \E i \in 1..Len(s) : s[i] = a
      THEN CHOOSE i \in 1..Len(s) :
             s[i] = a /\ \A j \in 1..(i - 1) : s[j] # a
      ELSE 0

After(s, i) == SubSeq(s, i + 1, Len(s))

\* [^/]+ at the start of s: the text up to the first slash or the end
Segment(s) ==
    IF IndexOf(s, "/") = 0 THEN s ELSE SubSeq(s, 1, IndexOf(s, "/") - 1)

\* what follows that segment: empty, or a slash and the rest
Behind(s) == After(s, Len(Segment(s)))

NoMatch == [ok |-> FALSE, m1 |-> Undefined, m2 |-> Undefined,
            m3 |-> Undefined, m4 |-> Undefined]

Matched(m1, m2, m3, m4) ==
    [ok |-> TRUE, m1 |-> m1, m2 |-> m2, m3 |-> m3, m4 |-> m4]

\* (?:\/tree\/([^/]+))?(?:\/(.+))?$ on what follows the repo segment
MatchTail(m1, m2, t) ==
    LET b  == After(t, 3)             \* behind "/tree/"
        viaTree == /\ Len(t) >= 4
                   /\ t[1] = "/" /\ t[2] = "tree" /\ t[3] = "/"
                   /\ Segment(b) # <<>>
                   /\ Len(Behind(b)) # 1
    IN  IF t = <<>> THEN Matched(m1, m2, Undefined, Undefined)
        ELSE IF viaTree
          THEN Matched(m1, m2, Segment(b),
                       IF Behind(b) = <<>> THEN Undefined
                       ELSE After(Behind(b), 1))
        ELSE IF Len(t) >= 2
          THEN Matched(m1, m2, Undefined, After(t, 1))
        ELSE NoMatch

\* /^https?:\/\/github\.com\/([^/]+)\/([^/]+)(?:\/tree\/([^/]+))?(?:\/(.+))?$/
Match1(s) ==
    LET t == After(s, 5)
        owner == Segment(t)
        u == After(Behind(t), 1)
        repo == Segment(u)
    IN  IF /\ Len(s) >= 5
           /\ s[1] \in {"https:", "http:"}
           /\ s[2] = "/" /\ s[3] = "/" /\ s[4] = "github.com" /\ s[5] = "/"
           /\ owner # <<>>
           /\ Behind(t) # <<>>
           /\ repo # <<>>
          THEN MatchTail(owner, repo, Behind(u))
          ELSE NoMatch

Match2_RestAsSubpath(s) ==
    LET owner == Segment(s)
        u == After(Behind(s), 1)
        repo == Segment(u)
    IN  IF owner # <<>> /\ Behind(s) # <<>> /\ repo # <<>>
           /\ Len(Behind(u)) # 1
          THEN Matched(owner, repo, Undefined,
                       IF Behind(u) = <<>> THEN Undefined
                       ELSE After(Behind(u), 1))
          ELSE NoMatch

\* /^([^/]+)\/([^/]+)(?:\/(.+))?$/
Match2(s) ==
    LET owner == Segment(s)
        u == After(Behind(s), 1)
        repo == Segment(u)
    IN  IF owner # <<>> /\ Behind(s) # <<>> /\ repo # <<>>
           /\ Len(Behind(u)) # 1
          THEN Matched(owner, repo,
                       IF Behind(u) = <<>> THEN Undefined
                       ELSE After(Behind(u), 1),
                       Undefined)
          ELSE NoMatch

\* match[2].replace('.git', ''): the first occurrence is removed
ReplaceGit(repo) ==
    IF IndexOf(repo, ".git") = 0 THEN repo
    ELSE SubSeq(repo, 1, IndexOf(repo, ".git") - 1)
         \o After(repo, IndexOf(repo, ".git"))

InvalidMessage_NoInput(inp) == <<"Invalid GitHub URL: ">>

\* `Invalid GitHub URL: ${input}`
InvalidMessage(inp) == <<"Invalid GitHub URL: ">> \o inp

ParseGitHubUrl(inp) ==
    LET m == IF Match1(inp).ok THEN Match1(inp) ELSE Match2(inp)
    IN  IF m.ok
          THEN [done |-> TRUE, threw |-> FALSE, owner |-> m.m1,
                repo |-> ReplaceGit(m.m2),
                branch |-> IF m.m3 = Undefined THEN <<"main">> ELSE m.m3,
                subpath |-> m.m4, error |-> <<>>]
          ELSE [done |-> TRUE, threw |-> TRUE, owner |-> <<>>, repo |-> <<>>,
                branch |-> <<>>, subpath |-> <<>>,
                error |-> InvalidMessage(inp)]

\* parseGitHubUrl called directly, as its unit tests call it.
InitParse ==
    /\ InitRun({})
    /\ platform = "linux"
    /\ input \in Inputs
    /\ parsed = NoParse
    /\ fetch = NoFetch
    /\ configFile = NoConfigFile
    /\ configRun = NoConfigRun
    /\ invocations = Empty

Parse ==
    /\ ~parsed.done
    /\ parsed' = ParseGitHubUrl(input)
    /\ UNCHANGED <<input, fetch, configFile, configRun>>
    /\ UNCHANGED <<fs, platform, lastCall, prevCall, faults, inFlight,
                   invocations>>
    /\ UNCHANGED runVars

NextParse == Parse

SpecParse == InitParse /\ [][NextParse]_vars

(***************************************************************************)
(* Properties of parseGitHubUrl, checked under SpecParse.                  *)
(***************************************************************************)
\* the segments of s between its slashes
RECURSIVE Split(_)
Split(s) ==
    IF IndexOf(s, "/") = 0 THEN <<s>>
    ELSE <<SubSeq(s, 1, IndexOf(s, "/") - 1)>>
         \o Split(After(s, IndexOf(s, "/")))

Remainder(g, n) == JoinSegs(SubSeq(g, n, Len(g)))

\* https://github.com/<owner>/<repo>[/tree/<branch>[/<subpath>]]
UrlSegments(s) == Split(After(s, 5))

UrlForm(s) ==
    /\ Len(s) >= 5
    /\ SubSeq(s, 1, 5) \in { <<"https:", "/", "/", "github.com", "/">>,
                             <<"http:", "/", "/", "github.com", "/">> }
    /\ \A n \in 1..Len(UrlSegments(s)) : UrlSegments(s)[n] # <<>>
    /\ \/ Len(UrlSegments(s)) = 2
       \/ Len(UrlSegments(s)) >= 4 /\ UrlSegments(s)[3] = <<"tree">>

\* owner/repo[/segment...]
Shorthand(s) ==
    /\ Len(Split(s)) >= 2
    /\ Split(s)[1] # <<>>
    /\ Split(s)[2] # <<>>
    /\ Len(Split(s)) = 2 \/ Remainder(Split(s), 3) # <<>>

StripGitSuffix(seg) ==
    IF Len(seg) >= 1 /\ seg[Len(seg)] = ".git"
      THEN SubSeq(seg, 1, Len(seg) - 1)
      ELSE seg

\* C14: on the full-URL form the result is (owner, repo, branch, subpath):
\* owner the first path segment, repo the second with a trailing '.git'
\* stripped and otherwise unchanged, branch the segment after tree/ or
\* 'main' without it, subpath what follows tree/<branch>/ or undefined.
C14_UrlForm ==
    (parsed.done /\ UrlForm(input)) =>
      LET g == UrlSegments(input)
      IN  /\ ~parsed.threw
          /\ parsed.owner = g[1]
          /\ parsed.repo = StripGitSuffix(g[2])
          /\ parsed.branch = IF Len(g) = 2 THEN <<"main">> ELSE g[4]
          /\ parsed.subpath =
               IF Len(g) >= 5 THEN Remainder(g, 5) ELSE Undefined

C16_InvalidInput ==
    parsed.done =>
      /\ (~Match1(input).ok /\ ~Match2(input).ok) => parsed.threw
      /\ IndexOf(input, "/") = 0 => parsed.threw
      /\ parsed.threw =>
           /\ parsed.error = <<"Invalid GitHub URL: ">> \o input
           /\ parsed.owner = <<>> /\ parsed.repo = <<>>
           /\ parsed.branch = <<>> /\ parsed.subpath = <<>>
           /\ ~UrlForm(input)
           /\ ~Shorthand(input)

C16_Witness ==
    /\ parsed.done /\ parsed.threw
    /\ IndexOf(input, "/") > 0
    /\ parsed.error = <<"Invalid GitHub URL: ">> \o input

(***************************************************************************)
(* fetchRepo (utils/repo.ts) and the source resolution of installCommand.  *)
(***************************************************************************)
GitHub == <<"https:", "/", "/", "github.com", "/">>

\* The source references given on the command line (none: the empty one).
FetchInputs ==
    { <<>>,
      <<"a">>,
      <<"a", "/", "a">>,
      <<"a", "/", "a", "/", "main">>,
      <<"a", "/", "a", "/", "dev">>,
      GitHub \o <<"a", "/", "a">>,
      GitHub \o <<"a", "/", "a", ".git">>,
      GitHub \o <<"a", "/", "a", "/", "tree", "/", "dev">>,
      GitHub \o <<"a", "/", "a", "/", "tree", "/", "dev", "/", "a">>,
      GitHub \o <<"a", "/", "a", "/", "tree", "/", "dev", "/", "a", "/", "a">>,
      GitHub \o <<"a", "/", "a", "/", "tree", "/", "main", "/", "a">> }

\* path.resolve(input)
Resolve(p) == <<"cwd", "/">> \o p

\* `https://github.com/${owner}/${repo}/archive/${b}.tar.gz`
TarUrl(owner, repo, b) == [owner |-> owner, repo |-> repo, branch |-> b]

\* const branches = branch === 'main' ? ['main', 'master'] : [branch]
Branches(branch) ==
    IF branch = <<"main">> THEN << <<"main">>, <<"master">> >> ELSE <<branch>>

\* what a fetch of a tarball can do: answer ok, answer with a non-success
\* status, or reject (network error)
FetchOutcomes == {"ok", "status", "rejected"}

FetchThrows(f, error) ==
    [f EXCEPT !.pc = "done", !.threw = TRUE, !.error = error]

FetchReturns(f, kind, path) ==
    [f EXCEPT !.pc = "done", !.result = [kind |-> kind, path |-> path]]

UseLocal_UnlessReference(exists, inp) ==
    exists /\ ~(Match1(inp).ok \/ Match2(inp).ok)

\* if (await fs.pathExists(input)) return path.resolve(input)
UseLocal(exists, inp) == exists

\* source ? await fetchRepo(source) : process.cwd(), up to the first fetch
FetchStart(exists, mkdirOk) ==
    /\ fetch.pc = "idle"
    /\ input # <<>> \/ (~exists /\ mkdirOk)
    /\ \E ref \in {ParseGitHubUrl(input)} :
       LET f == [fetch EXCEPT !.exists = exists]
       IN  fetch' =
             IF input = <<>> THEN FetchReturns(fetch, "cwd", <<"cwd">>)
             ELSE IF UseLocal(exists, input)
               THEN FetchReturns(f, "local", Resolve(input))
             ELSE IF ref.threw
               THEN FetchThrows([f EXCEPT !.ref = ref], ref.error)
             ELSE IF ~mkdirOk
               THEN FetchThrows([f EXCEPT !.ref = ref], <<"ensureDir">>)
             ELSE [f EXCEPT !.pc = "fetching", !.ref = ref,
                            !.tempDir = TRUE,
                            !.branches = Branches(ref.branch)]
    /\ UNCHANGED <<input, parsed, configFile, configRun>>
    /\ UNCHANGED <<fs, platform, lastCall, prevCall, faults, inFlight,
                   invocations>>
    /\ UNCHANGED runVars

\* one turn of the loop over branches
FetchAttempt(answer) ==
    /\ fetch.pc = "fetching"
    /\ Len(fetch.attempts) < Len(fetch.branches)
    /\ LET b == fetch.branches[Len(fetch.attempts) + 1]
           f == [fetch EXCEPT !.attempts =
                   Append(@, [url |-> TarUrl(fetch.ref.owner,
                                             fetch.ref.repo, b),
                              outcome |-> answer])]
           last == Len(f.attempts) = Len(f.branches)
       IN  fetch' =
             CASE answer = "rejected" -> FetchThrows(f, <<"fetch failed">>)
               [] answer = "ok" -> [f EXCEPT !.pc = "fetched"]
               [] OTHER ->
                    IF last
                      THEN FetchThrows(f,
                             <<"Failed to fetch: Repository not found or not accessible">>)
                      ELSE f
    /\ UNCHANGED <<input, parsed, configFile, configRun>>
    /\ UNCHANGED <<fs, platform, lastCall, prevCall, faults, inFlight,
                   invocations>>
    /\ UNCHANGED runVars

\* path.join(os.tmpdir(), 'agent-share', `${owner}-${repo}-${Date.now()}`),
\* without the time stamp
TempDir(owner, repo) == <<"tmp", "/">> \o owner \o <<"-">> \o repo

ReturnedDir_Subpath(tempDir, ref) ==
    IF ref.subpath = Undefined THEN tempDir
    ELSE tempDir \o <<"/">> \o ref.subpath

\* return tempDir: the directory the archive was extracted into, strip: 1
ReturnedDir(tempDir, ref) == tempDir

\* the archive is written into tempDir, extracted there and removed
FetchExtract(writeOk, extractOk) ==
    /\ fetch.pc = "fetched"
    /\ writeOk \/ extractOk
    /\ fetch' =
         IF ~writeOk THEN FetchThrows(fetch, <<"writeFile">>)
         ELSE IF ~extractOk
           THEN FetchThrows([fetch EXCEPT !.wrote = TRUE], <<"extract">>)
         ELSE FetchReturns([fetch EXCEPT !.wrote = TRUE, !.extracted = TRUE],
                           "temp",
                           ReturnedDir(TempDir(fetch.ref.owner,
                                               fetch.ref.repo), fetch.ref))
    /\ UNCHANGED <<input, parsed, configFile, configRun>>
    /\ UNCHANGED <<fs, platform, lastCall, prevCall, faults, inFlight,
                   invocations>>
    /\ UNCHANGED runVars

InitFetch ==
    /\ InitRun({})
    /\ platform = "linux"
    /\ input \in FetchInputs
    /\ parsed = NoParse
    /\ fetch = NoFetch
    /\ configFile = NoConfigFile
    /\ configRun = NoConfigRun
    /\ invocations = Empty

NextFetch ==
    \/ \E exists, mkdirOk \in BOOLEAN : FetchStart(exists, mkdirOk)
    \/ \E answer \in FetchOutcomes : FetchAttempt(answer)
    \/ \E writeOk, extractOk \in BOOLEAN : FetchExtract(writeOk, extractOk)

SpecFetch == InitFetch /\ [][NextFetch]_vars

(***************************************************************************)
(* Properties of fetchRepo, checked under SpecFetch.                       *)
(***************************************************************************)
Attempted(n) == fetch.attempts[n].url.branch

NoAttemptOk ==
    \A n \in 1..Len(fetch.attempts) : fetch.attempts[n].outcome # "ok"

\* C17: when the resolved branch is 'main' and the fetch for main fails, by
\* a network error or by a non-success status, the fetch is retried exactly
\* once with 'master', and only after main failed; for any other branch
\* exactly one fetch is attempted; when no attempt succeeds fetchRepo fails
\* and neither writes nor extracts an archive.
C17_BranchFallback ==
    /\ Len(fetch.attempts) <= Len(fetch.branches)
    /\ \A n \in 1..Len(fetch.attempts) : Attempted(n) = fetch.branches[n]
    /\ Len(fetch.attempts) = 2
         => /\ Attempted(1) = <<"main">>
            /\ fetch.attempts[1].outcome # "ok"
            /\ Attempted(2) = <<"master">>
    /\ ( /\ fetch.pc = "done"
         /\ Len(fetch.attempts) >= 1
         /\ Attempted(1) = <<"main">>
         /\ fetch.attempts[1].outcome # "ok" )
         => Len(fetch.attempts) = 2
    /\ ( /\ fetch.pc \in {"fetched", "done"}
         /\ Len(fetch.attempts) >= 1
         /\ Attempted(1) # <<"main">> )
         => Len(fetch.attempts) = 1
    /\ (fetch.pc = "done" /\ Len(fetch.attempts) >= 1 /\ NoAttemptOk)
         => /\ fetch.threw
            /\ ~fetch.wrote
            /\ ~fetch.extracted

\* C18: a source that names an existing local path is returned resolved to
\* absolute, without being parsed as a repository reference, without a
\* fetch and without a temp directory, also when it has the form of a
\* reference; without a source the current working directory is used.
C18_LocalPrecedence ==
    /\ (fetch.pc = "done" /\ input # <<>> /\ fetch.exists)
         => /\ ~fetch.threw
            /\ fetch.result = [kind |-> "local", path |-> Resolve(input)]
            /\ fetch.ref = NoParse
            /\ fetch.attempts = <<>>
            /\ ~fetch.tempDir
            /\ ~fetch.wrote
    /\ (fetch.pc = "done" /\ input = <<>>)
         => /\ ~fetch.threw
            /\ fetch.result = [kind |-> "cwd", path |-> <<"cwd">>]
            /\ fetch.ref = NoParse
            /\ fetch.attempts = <<>>
            /\ ~fetch.tempDir
    /\ fetch.result.kind = "temp"
         => (input # <<>> /\ ~fetch.exists /\ fetch.extracted)

C18_Witness ==
    /\ fetch.pc = "done"
    /\ fetch.exists
    /\ Shorthand(input)
    /\ fetch.result.kind = "local"
    /\ fetch.attempts = <<>>

(***************************************************************************)
(* The persisted configuration (utils/config.ts) and configCommand.        *)
(* A configuration is a function from some of the keys to their values; an *)
(* option that is not given is "".                                         *)
(***************************************************************************)
ConfigKeys == {"defaultTarget", "linkMethod"}

TargetValues == {".claude", ".cursor"}

MethodValues == {"symlink", "copy"}

\* a --method value the command does not know
OtherMethod == "hardlink"

Configs ==
    UNION { [ks -> TargetValues \cup MethodValues] : ks \in SUBSET ConfigKeys }

WellFormed(c) ==
    /\ "defaultTarget" \in DOMAIN c => c["defaultTarget"] \in TargetValues
    /\ "linkMethod" \in DOMAIN c => c["linkMethod"] \in MethodValues

\* config.json at the start: absent, a JSON document, or a file whose read
\* fails (not JSON, or not readable)
ConfigFiles ==
    {NoConfigFile}
      \cup { [exists |-> TRUE, readable |-> TRUE, content |-> c] :
               c \in {x \in Configs : WellFormed(x)} }
      \cup { [exists |-> TRUE, readable |-> FALSE, content |-> c] :
               c \in {Empty, [k \in ConfigKeys |->
                                IF k = "defaultTarget" THEN ".claude"
                                                       ELSE "copy"]} }

ConfigOptions ==
    [show : BOOLEAN, target : {""} \cup TargetValues,
     method : {"", OtherMethod} \cup MethodValues]

\* getConfig: the document when the file exists and is read, else {}
GetConfig(file) ==
    IF file.exists /\ file.readable THEN file.content ELSE Empty

\* { ...config, ...updates }
Merge_UpdatesOnly(config, updates) == updates

Merge(config, updates) ==
    [k \in DOMAIN config \cup DOMAIN updates |->
       IF k \in DOMAIN updates THEN updates[k] ELSE config[k]]

\* setConfig: the file after ensureDir and writeJson, when they succeed
SetConfig(file, updates) ==
    [exists |-> TRUE, readable |-> TRUE,
     content |-> Merge(GetConfig(file), updates)]

\* options.show || (!options.target && !options.method)
ShowRequested(options) ==
    options.show \/ (options.target = "" /\ options.method = "")

\* options.method !== 'symlink' && options.method !== 'copy' is false
ValidMethod(m) == m \in MethodValues

\* the updates configCommand has collected when it reaches setConfig
Updates(options) ==
    [k \in {x \in ConfigKeys :
              \/ x = "defaultTarget" /\ options.target # ""
              \/ x = "linkMethod" /\ options.method # ""} |->
       IF k = "defaultTarget" THEN options.target ELSE options.method]

ConfigRan(options, loaded, messages, exit, writes) ==
    [cmd |-> "config", options |-> options, before |-> configFile,
     loaded |-> loaded, messages |-> messages, exit |-> exit,
     writes |-> writes]

TargetMessage(options) ==
    IF options.target # "" THEN <<"Default target set">> ELSE <<>>

\* agent-share config, with the given options; writeOk is whether ensureDir
\* and writeJson of setConfig succeed
ConfigCommand(options, writeOk) ==
    /\ options \in ConfigOptions
    /\ (ShowRequested(options)
          \/ (options.method # "" /\ ~ValidMethod(options.method)))
         => writeOk
    /\ \E loaded \in {GetConfig(configFile)} :
         IF ShowRequested(options)
           THEN /\ configRun' = ConfigRan(options, loaded,
                                          <<"Current configuration">>, 0, 0)
                /\ UNCHANGED configFile
         ELSE IF options.method # "" /\ ~ValidMethod(options.method)
           THEN /\ configRun' = ConfigRan(options, Empty,
                                   TargetMessage(options)
                                     \o <<"Invalid method">>, 1, 0)
                /\ UNCHANGED configFile
         ELSE LET said == TargetMessage(options)
                            \o (IF options.method # ""
                                  THEN <<"Link method set">> ELSE <<>>)
              IN  IF writeOk
                    THEN /\ configFile' = SetConfig(configFile,
                                                    Updates(options))
                         /\ configRun' = ConfigRan(options, loaded, said, 0, 1)
                    ELSE /\ configRun' = ConfigRan(options, loaded, said, 1, 0)
                         /\ UNCHANGED configFile
    /\ UNCHANGED <<input, parsed, fetch>>
    /\ UNCHANGED <<fs, platform, lastCall, prevCall, faults, inFlight,
                   invocations>>
    /\ UNCHANGED runVars

\* agent-share install / update: installCommand loads the configuration and
\* nothing of it is saved; agent-share list does not load it
OtherCommand(cmd) ==
    /\ cmd \in {"install", "update", "list"}
    /\ configRun' =
         [cmd |-> cmd, options |-> NoConfigRun.options,
          before |-> configFile,
          loaded |-> IF cmd = "list" THEN Empty ELSE GetConfig(configFile),
          messages |-> <<>>, exit |-> 0, writes |-> 0]
    /\ UNCHANGED configFile
    /\ UNCHANGED <<input, parsed, fetch>>
    /\ UNCHANGED <<fs, platform, lastCall, prevCall, faults, inFlight,
                   invocations>>
    /\ UNCHANGED runVars

InitConfig ==
    /\ InitRun({})
    /\ platform = "linux"
    /\ input = <<>>
    /\ parsed = NoParse
    /\ fetch = NoFetch
    /\ configFile \in ConfigFiles
    /\ configRun = NoConfigRun
    /\ invocations = Empty

NextConfig ==
    \/ \E options \in ConfigOptions, writeOk \in BOOLEAN :
         ConfigCommand(options, writeOk)
    \/ \E cmd \in {"install", "update", "list"} : OtherCommand(cmd)

SpecConfig == InitConfig /\ [][NextConfig]_vars

(***************************************************************************)
(* Properties of the persisted configuration, checked under SpecConfig.    *)
(***************************************************************************)
\* C19: config with a --method value other than 'symlink' or 'copy' fails:
\* the process exits with code 1 and the persisted configuration is left
\* as it was, also when a --target value is given in the same invocation.
C19_InvalidMethod ==
    ( /\ configRun.cmd = "config"
      /\ configRun.options.method # ""
      /\ configRun.options.method \notin MethodValues )
    => /\ configRun.exit = 1
       /\ configRun.writes = 0
       /\ configFile = configRun.before

\* what the file held before the command, as far as it could be read
Persisted(file) == IF file.exists THEN file.content ELSE Empty

Overlaid(before, updates, after) ==
    /\ DOMAIN after = DOMAIN before \cup DOMAIN updates
    /\ \A k \in DOMAIN updates : after[k] = updates[k]
    /\ \A k \in DOMAIN before \ DOMAIN updates : after[k] = before[k]

\* C20: a setConfig(updates) that succeeds on an absent file or on a file
\* that can be read leaves the previously persisted keys overlaid with the
\* updates (an absent file counts as the empty configuration); on a file
\* whose read fails it leaves the updates alone.  Only the config command
\* writes the file, and not with --show or without --target and --method:
\* install, update and list leave it as it was.
C20_ReadMergeWrite ==
    /\ (configRun.cmd # "" /\ configRun.writes = 0)
         => configFile = configRun.before
    /\ configRun.writes = 1 =>
         /\ configRun.cmd = "config"
         /\ ~configRun.options.show
         /\ configRun.options.target # "" \/ configRun.options.method # ""
         /\ configFile.exists /\ configFile.readable
         /\ \E updates \in {Updates(configRun.options)} :
              IF configRun.before.exists /\ ~configRun.before.readable
                THEN configFile.content = updates
                ELSE Overlaid(Persisted(configRun.before), updates,
                              configFile.content)
    /\ configRun.cmd \in {"install", "update", "list"} => configRun.writes = 0
    /\ (~configRun.before.exists /\ configRun.cmd \in {"config", "install"})
         => configRun.loaded = Empty

C20_Witness ==
    /\ configRun.writes = 1
    /\ configRun.options.target # ""
    /\ configRun.options.method = ""
    /\ configRun.before.exists /\ configRun.before.readable
    /\ DOMAIN configRun.before.content = ConfigKeys
    /\ configRun.before.content["defaultTarget"] # configRun.options.target
    /\ configFile.content["linkMethod"] = configRun.before.content["linkMethod"]
    /\ configFile.content["defaultTarget"] = configRun.options.target

(***************************************************************************)
(* Further properties of the driving loop, checked under Spec.             *)
(***************************************************************************)
Total(s) == s.installed + s.skipped + s.failed

\* one step of the loop over the pairs
PairStep == pc = "exec" /\ processed' # processed

\* from s to t exactly one of the three counters has grown, by one
OneMore(s, t) ==
    \/ t = [s EXCEPT !.installed = @ + 1]
    \/ t = [s EXCEPT !.skipped = @ + 1]
    \/ t = [s EXCEPT !.failed = @ + 1]

CountersFollowOutcomes ==
    Executing =>
      \A k \in 1..Len(targetKeys) :
        /\ SummaryOf(k).installed =
             NumberOf({n \in PairsOf(k) : PairInstalled(processed[n])})
        /\ SummaryOf(k).skipped =
             NumberOf({n \in PairsOf(k) : ~processed[n].called})
        /\ SummaryOf(k).failed =
             NumberOf({n \in PairsOf(k) : PairFailed(processed[n])})
        /\ Total(SummaryOf(k)) = NumberOf(PairsOf(k))
        /\ k > Len(processed) \div Len(Flat) + 1
             => SummaryOf(k) = NewSummary(targetKeys[k])
        /\ (pc = "done" \/ k < targetIdx) => Total(SummaryOf(k)) = Len(Flat)

\* C21: the counters of every target start at 0 and never decrease; each
\* processed pair adds exactly 1 to exactly one counter of its own target
\* and leaves the other targets' counters alone, so after the loop
\* installed + skipped + failed is the number of selected items for every
\* target; installed and failed count the outcomes of the linkOrCopy calls
\* and skipped the pairs for which none was made.
C21_SummaryCounters ==
    /\ []CountersFollowOutcomes
    /\ [][PairStep =>
            \A k \in 1..Len(targetKeys) :
              IF k = targetIdx
                THEN OneMore(SummaryOf(k), SummaryOf(k)')
                ELSE SummaryOf(k)' = SummaryOf(k)]_vars

C21_Witness ==
    /\ pc = "done" /\ outcome = "complete"
    /\ Len(Flat) = 2
    /\ \E k \in 1..Len(summaries) :
         /\ summaries[k].installed = 1
         /\ summaries[k].failed = 1
         /\ \E n \in PairsOf(k) :
              PairFailed(processed[n]) /\ ~processed[n].exists

\* C22: within one scan result every id is unique: no scanner returns two
\* records with the same id, whatever files its patterns match.
C22_UniqueIds ==
    \A t \in DOMAIN available :
      \A m, n \in 1..Len(available[t]) :
        available[t][m].id = available[t][n].id => m = n

\* the existence matrix is built for every type that has items
MatrixBuilt ==
    DOMAIN existenceMaps = {t \in SeqToSet(types) : Len(available[t]) > 0}

\* every entry of the matrix is what the probe of its path found before the
\* first mutating call of the run
MatrixOfStart ==
    \A t \in DOMAIN existenceMaps :
      /\ DOMAIN existenceMaps[t] = ItemIds(available[t])
      /\ \A id \in DOMAIN existenceMaps[t] :
           /\ DOMAIN existenceMaps[t][id]
                = {TargetDir(targetKeys[k], t) : k \in 1..Len(targetKeys)}
           /\ \A d \in DOMAIN existenceMaps[t][id] :
                existenceMaps[t][id][d] = InstalledBefore(Join(d, id))

MatrixBeforeMutation ==
    /\ pc \in {"idle", "select", "confirm"}
         => (~lastCall.made /\ processed = <<>> /\ fs = fsAtStart)
    /\ MatrixOfStart
    /\ (pc \in {"confirm", "exec"} \/ outcome = "complete") => MatrixBuilt
    /\ \A n \in 1..Len(processed) :
         processed[n].exists = InstalledBefore(processed[n].path)

\* C23: every existence probe of every (item, target) pair of every selected
\* type is made before the first remove, ensureDir, symlink or copy of the
\* run, and the matrix is not written again once the selection is over, so
\* each entry is the state of its path before the run's operations.
C23_MatrixBeforeMutation ==
    /\ []MatrixBeforeMutation
    /\ [][(pc \in {"confirm", "exec"} \/ fs' # fs)
            => existenceMaps' = existenceMaps]_vars

C23_Witness ==
    /\ Executing
    /\ \E n \in 1..Len(processed) :
         LET e == processed[n]
         IN  /\ PairInstalled(e)
             /\ ~existenceMaps[e.type][e.item.id][Dirname(e.path)]
             /\ PathExists(fs, e.path)
             /\ ~InstalledBefore(e.path)

(***************************************************************************)
(* The loop of step 7 with its suspension point: the loop issues a         *)
(* linkOrCopy call (PairBegin) and goes on when the call has resolved      *)
(* (PairEnd).                                                              *)
(***************************************************************************)
AfterCall_NoAwait == "exec"

\* await linkOrCopy(...): the loop is suspended until the call resolves
AfterCall == "await"

\* the pair is counted; after the last pair of a target its summary is
\* pushed, after the last target the run is complete
Advance(counted, n) ==
    IF pairIdx = n
      THEN /\ summaries' = Append(summaries, counted)
           /\ pairIdx' = 1
           /\ targetIdx' = targetIdx + 1
           /\ summary' = IF targetIdx = Len(targetKeys) THEN NoSummary
                         ELSE NewSummary(targetKeys[targetIdx + 1])
           /\ pc' = IF targetIdx = Len(targetKeys) THEN "done" ELSE "exec"
           /\ outcome' = IF targetIdx = Len(targetKeys) THEN "complete" ELSE ""
      ELSE /\ summary' = counted
           /\ pairIdx' = pairIdx + 1
           /\ pc' = "exec"
           /\ UNCHANGED <<summaries, targetIdx, outcome>>

PairRecord(flat, existsInThisTarget, skip, r) ==
    [target |-> targetIdx, key |-> targetKeys[targetIdx],
     type |-> flat[pairIdx].type, item |-> flat[pairIdx].item,
     path |-> Join(TargetDir(targetKeys[targetIdx], flat[pairIdx].type),
                   flat[pairIdx].item.id),
     exists |-> existsInThisTarget,
     present |-> PathExists(fs, Join(TargetDir(targetKeys[targetIdx],
                                               flat[pairIdx].type),
                                     flat[pairIdx].item.id)),
     called |-> ~skip,
     force |-> ~skip /\ Force(opts.mode),
     threw |-> ~skip /\ r.threw,
     success |-> ~skip /\ ~r.threw /\ r.result.success,
     faulty |-> ~skip /\ r.failed # {}]

\* the loop takes up the pair at its position: it is skipped, or its
\* linkOrCopy call is issued
PairBegin ==
    /\ pc = "exec"
    /\ \E flat \in {FlatSelected(types, selected)} :
       LET type == flat[pairIdx].type
           item == flat[pairIdx].item
           targetDir == TargetDir(targetKeys[targetIdx], type)
           existsInThisTarget == existenceMaps[type][item.id][targetDir]
       IN  IF SkipPair(opts.mode, existsInThisTarget)
             THEN /\ processed' = Append(processed,
                        PairRecord(flat, existsInThisTarget, TRUE,
                                   Thrown(fs, <<>>, {})))
                  /\ Advance(Count(summary, "skipped"), Len(flat))
                  /\ UNCHANGED inFlight
             ELSE /\ inFlight' = Append(inFlight,
                        [target |-> targetIdx, pair |-> pairIdx])
                  /\ pc' = AfterCall
                  /\ UNCHANGED <<processed, summary, summaries, targetIdx,
                                 pairIdx, outcome>>
    /\ UNCHANGED <<fs, platform, lastCall, prevCall, faults, opts, targetKeys,
                   types, available, typeIdx, selected, existenceMaps,
                   fsAtStart, exitCode>>
    /\ UNCHANGED <<input, parsed, fetch, configFile, configRun, invocations>>

\* the call that was issued first resolves: result.success is counted as
\* installed, a failure result or a thrown error as failed
PairEnd(io) ==
    /\ inFlight # <<>>
    /\ \E flat \in {FlatSelected(types, selected)} :
       \E r \in {LinkOrCopy(fs, Dirname(flat[pairIdx].item.path),
                            Join(TargetDir(targetKeys[targetIdx],
                                           flat[pairIdx].type),
                                 flat[pairIdx].item.id),
                            opts.method, Force(opts.mode), platform, io)} :
       LET type == flat[pairIdx].type
           item == flat[pairIdx].item
           targetDir == TargetDir(targetKeys[targetIdx], type)
           what == Outcome(FALSE, r)
       IN  /\ faults + Faulty(r) <= MaxFaults
           /\ faults' = faults + Faulty(r)
           /\ fs' = r.fs
           /\ lastCall' = CallRecord(Dirname(item.path),
                                     Join(targetDir, item.id), opts.method,
                                     Force(opts.mode), fs, r)
           /\ processed' = Append(processed,
                 PairRecord(flat, existenceMaps[type][item.id][targetDir],
                            FALSE, r))
           /\ Advance(Count(summary, what), Len(flat))
    /\ inFlight' = Tail(inFlight)
    /\ UNCHANGED <<platform, prevCall, opts, targetKeys, types, available,
                   typeIdx, selected, existenceMaps, fsAtStart, exitCode>>
    /\ UNCHANGED <<input, parsed, fetch, configFile, configRun, invocations>>

InitExec == InitWith({Join(TargetDir(".claude", "rules"), "a")})

NextExec ==
    \/ \E mode \in Modes, all \in BOOLEAN, method \in {"symlink", "copy"},
          keys \in TargetKeyChoices, tps \in TypeChoices, repo \in Repos :
            InstallStart(mode, all, method, keys, tps, repo)
    \/ \E selectedIds \in SUBSET {"a", "b"} : SelectItems(selectedIds)
    \/ \E proceed \in BOOLEAN : Confirm(proceed)
    \/ PairBegin
    \/ \E io \in IOOutcomes : PairEnd(io)
    \/ Cancel
    \/ Fail

SpecExec == InitExec /\ [][NextExec]_vars

\* C24: the targets are processed one after another in the order given and
\* within a target the selected items one after another; at most one
\* linkOrCopy call is in flight, and while it is, the loop stands at its
\* pair and every pair before it has been completed.
C24_SequentialExecution ==
    /\ Len(inFlight) <= 1
    /\ inFlight # <<>>
         => /\ pc = "await"
            /\ inFlight[1] = [target |-> targetIdx, pair |-> pairIdx]
    /\ pc \in {"exec", "await"}
         => /\ targetIdx \in 1..Len(targetKeys)
            /\ pairIdx \in 1..Len(Flat)
            /\ Len(processed) = (targetIdx - 1) * Len(Flat) + pairIdx - 1
    /\ \A m, n \in 1..Len(processed) :
         m < n =>
           \/ processed[m].target < processed[n].target
           \/ /\ processed[m].target = processed[n].target
              /\ (m - 1) % Len(Flat) < (n - 1) % Len(Flat)
    /\ \A n \in 1..Len(processed) :
         /\ processed[n].key = targetKeys[processed[n].target]
         /\ processed[n].item = Flat[((n - 1) % Len(Flat)) + 1].item
         /\ processed[n].type = Flat[((n - 1) % Len(Flat)) + 1].type
    /\ lastCall.made =>
         \A i \in 1..Len(lastCall.ops) :
           lastCall.ops[i].path \in {lastCall.target, Dirname(lastCall.target)}

C24_Witness ==
    /\ pc = "await"
    /\ Len(inFlight) = 1
    /\ targetIdx = 2
    /\ pairIdx = 2
    /\ Len(processed) = 3
    /\ lastCall.made

\* C25: in a run with mode 'install' no entry that the filesystem held
\* before the loop is removed or replaced; no linkOrCopy call has force, no
\* remove is issued, and a symlink or copy is issued only after the call
\* has probed its target path and found it absent.
C25_InstallKeepsExisting ==
    opts.mode = "install" =>
      /\ \A p \in DOMAIN fsAtStart :
           p \in DOMAIN fs /\ fs[p] = fsAtStart[p]
      /\ \A n \in 1..Len(processed) : ~processed[n].force
      /\ lastCall.made =>
           /\ ~lastCall.force
           /\ ~Issued(lastCall.ops, "remove")
           /\ lastCall.target \notin DOMAIN fsAtStart
           /\ (Issued(lastCall.ops, "symlink") \/ Issued(lastCall.ops, "copy"))
                => /\ ~ExistedBefore(lastCall)
                   /\ Issued(lastCall.ops, "pathExists")
                   /\ Precedes(lastCall.ops, "pathExists", "symlink")
                   /\ Precedes(lastCall.ops, "pathExists", "copy")
           /\ ExistedBefore(lastCall) => ~Mutates(lastCall.ops)

C25_Witness ==
    /\ opts.mode = "install" /\ pc = "done" /\ outcome = "complete"
    /\ \E m, n \in 1..Len(processed) :
         /\ ~processed[m].called
         /\ processed[m].path \in DOMAIN fsAtStart
         /\ fs[processed[m].path] = Earlier
         /\ PairInstalled(processed[n])
    /\ fs # fsAtStart

\* the pairs m < n of one target whose items are of one type and share an
\* id, the path of that id free in the target before the run
SameId(m, n) ==
    /\ m < n
    /\ processed[m].target = processed[n].target
    /\ processed[m].type = processed[n].type
    /\ processed[m].item.id = processed[n].item.id
    /\ ~InstalledBefore(processed[n].path)

\* the entry that the linkOrCopy call of pair e makes when it succeeds
MadeBy(e, entry) ==
    /\ entry.kind \in {"symlink", "copy"}
    /\ entry.src = Dirname(e.item.path)

\* C26: in install mode, of two selected items of one type that share an
\* id absent from a target before the run, neither is skipped for that
\* target: the first is handed to linkOrCopy and, no filesystem call
\* failing, counted as installed; the second is then counted as failed,
\* its call returning 'Target already exists', and the entry made by the
\* first is left as it is.
C26_StaleMatrix ==
    (opts.mode = "install" /\ Executing) =>
      /\ \A m, n \in 1..Len(processed) :
           SameId(m, n) =>
             /\ ~processed[m].exists /\ ~processed[n].exists
             /\ processed[m].called /\ processed[n].called
             /\ ~processed[m].faulty => PairInstalled(processed[m])
             /\ PairInstalled(processed[m]) =>
                  /\ PairFailed(processed[n])
                  /\ ~processed[n].threw
                  /\ processed[n].present
                  /\ MadeBy(processed[m], fs[processed[n].path])
                  /\ n = Len(processed) => /\ AlreadyExistsFailure(lastCall)
                                           /\ ~Mutates(lastCall.ops)
      /\ \A k \in 1..Len(summaries) :
           ( /\ Len(Flat) = 2
             /\ SameId(2 * k - 1, 2 * k)
             /\ ~processed[2 * k - 1].faulty )
           => summaries[k] = [NewSummary(targetKeys[k]) EXCEPT
                                !.installed = 1, !.failed = 1]

C26_Witness ==
    /\ opts.mode = "install" /\ pc = "done" /\ outcome = "complete"
    /\ Len(processed) = 2
    /\ SameId(1, 2)
    /\ processed[1].item # processed[2].item
    /\ PairInstalled(processed[1])
    /\ PairFailed(processed[2])
    /\ lastCall.result.error = "Target already exists"
    /\ summaries[1].installed = 1 /\ summaries[1].failed = 1

LastPair == processed[Len(processed)]

\* C27: in update mode, when an entry is present at the target path, its
\* removal succeeds and the copy then fails (after a failed symlink
\* attempt, where one is made), the call throws, the pair is counted as
\* failed and the path does not hold the entry it held before: it is
\* absent or holds what the failed copy left.
C27_NoRollback ==
    ( /\ opts.mode = "update" /\ Executing
      /\ lastCall.made
      /\ ExistedBefore(lastCall)
      /\ "remove" \notin lastCall.failed
      /\ "copy" \in lastCall.failed )
    => /\ lastCall.threw
       /\ Issued(lastCall.ops, "remove")
       /\ Issued(lastCall.ops, "symlink") => "symlink" \in lastCall.failed
       /\ LastPair.path = lastCall.target
       /\ PairFailed(LastPair)
       /\ SummaryOf(LastPair.target).failed
            = NumberOf({n \in PairsOf(LastPair.target) :
                          PairFailed(processed[n])})
       /\ SummaryOf(LastPair.target).failed >= 1
       /\ \/ ~PathExists(fs, lastCall.target)
          \/ fs[lastCall.target] = Entry("partial", lastCall.source)
       /\ PathExists(fs, lastCall.target)
            => fs[lastCall.target] # lastCall.before[lastCall.target]

C27_Witness ==
    /\ opts.mode = "update" /\ Executing
    /\ lastCall.made
    /\ InstalledBefore(lastCall.target)
    /\ lastCall.before[lastCall.target] = Earlier
    /\ lastCall.failed = {"symlink", "copy"}
    /\ ~PathExists(fs, lastCall.target)
    /\ PairFailed(LastPair)

(***************************************************************************)
(* Two config invocations side by side.  setConfig is split at its awaits: *)
(* the configuration is read (getConfig), then merged and written.         *)
(***************************************************************************)
Invocations == {1, 2}

\* the updates of a config invocation that reaches setConfig
UpdateChoices ==
    { Updates(o) : o \in { x \in ConfigOptions :
                             /\ ~ShowRequested(x)
                             /\ x.method # "" => ValidMethod(x.method) } }

Invocation(updates) ==
    [pc |-> "read", updates |-> updates, config |-> Empty, seen |-> 0,
     order |-> 0]

\* writes of the config file made so far
Written(invs) == Cardinality({j \in DOMAIN invs : invs[j].pc = "done"})

ConfigToWrite_Reread(inv, file) == GetConfig(file)

\* newConfig is built from the config that getConfig returned earlier
ConfigToWrite(inv, file) == inv.config

\* const config = await getConfig()
SetConfigRead(i) ==
    /\ i \in DOMAIN invocations
    /\ invocations[i].pc = "read"
    /\ invocations' =
         [invocations EXCEPT ![i] =
            [@ EXCEPT !.pc = "write", !.config = GetConfig(configFile),
                      !.seen = Written(invocations)]]
    /\ UNCHANGED <<input, parsed, fetch, configFile, configRun, inFlight>>
    /\ UNCHANGED <<fs, platform, lastCall, prevCall, faults>>
    /\ UNCHANGED runVars

\* await fs.writeJson(CONFIG_PATH, { ...config, ...updates })
SetConfigWrite(i) ==
    /\ i \in DOMAIN invocations
    /\ invocations[i].pc = "write"
    /\ configFile' =
         [exists |-> TRUE, readable |-> TRUE,
          content |-> Merge(ConfigToWrite(invocations[i], configFile),
                            invocations[i].updates)]
    /\ invocations' =
         [invocations EXCEPT ![i] =
            [@ EXCEPT !.pc = "done", !.order = Written(invocations) + 1]]
    /\ UNCHANGED <<input, parsed, fetch, configRun, inFlight>>
    /\ UNCHANGED <<fs, platform, lastCall, prevCall, faults>>
    /\ UNCHANGED runVars

InitRace ==
    /\ InitRun({})
    /\ platform = "linux"
    /\ input = <<>>
    /\ parsed = NoParse
    /\ fetch = NoFetch
    /\ configFile \in ConfigFiles
    /\ configRun = NoConfigRun
    /\ invocations \in [Invocations -> {Invocation(u) : u \in UpdateChoices}]

NextRace ==
    \/ \E i \in Invocations : SetConfigRead(i)
    \/ \E i \in Invocations : SetConfigWrite(i)

SpecRace == InitRace /\ [][NextRace]_vars

BothDone == \A i \in DOMAIN invocations : invocations[i].pc = "done"

\* the invocation that wrote first, and the one that wrote last
Wrote(n) == CHOOSE i \in DOMAIN invocations : invocations[i].order = n

\* C28: setConfig takes no lock between its read and its write.  Of two
\* config invocations, the one that writes last leaves the file as the
\* configuration it read overlaid with its own updates; when it read before
\* the other wrote, a key set by the other alone has the value it had
\* before both, or none: that update is lost.  When it read after the
\* other wrote, both updates are in the file.
C28_LostUpdate ==
    (invocations # Empty /\ BothDone) =>
      LET first == invocations[Wrote(1)]
          last  == invocations[Wrote(2)]
      IN  /\ first.seen = 0
          /\ first.order = 1 /\ last.order = 2
          /\ Overlaid(last.config, last.updates, configFile.content)
          /\ last.seen = 0 =>
               /\ last.config = first.config
               /\ \A k \in DOMAIN first.updates \ DOMAIN last.updates :
                    IF k \in DOMAIN first.config
                      THEN configFile.content[k] = first.config[k]
                      ELSE k \notin DOMAIN configFile.content
          /\ last.seen = 1 =>
               /\ Overlaid(first.config, first.updates, last.config)
               /\ \A k \in DOMAIN first.updates \ DOMAIN last.updates :
                    configFile.content[k] = first.updates[k]

C28_Witness ==
    /\ invocations # Empty /\ BothDone
    /\ \E i, j \in DOMAIN invocations :
         /\ DOMAIN invocations[i].updates = {"defaultTarget"}
         /\ DOMAIN invocations[j].updates = {"linkMethod"}
         /\ invocations[i].order = 1
         /\ invocations[j].seen = 0
    /\ DOMAIN configFile.content = {"linkMethod"}

\* C29: fetchRepo uses the owner, the repo and the branch of a reference
\* and nothing else of it: every tarball requested is that of (owner, repo,
\* branch tried), whatever subpath follows tree/<branch>/, and the
\* directory returned is the directory the archive was extracted into,
\* never the subpath inside it.
C29_SubpathIgnored ==
    (fetch.ref.done /\ ~fetch.ref.threw) =>
      /\ fetch.ref = ParseGitHubUrl(input)
      /\ fetch.branches # <<>> => fetch.branches = Branches(fetch.ref.branch)
      /\ \A n \in 1..Len(fetch.attempts) :
           fetch.attempts[n].url =
             [owner |-> fetch.ref.owner, repo |-> fetch.ref.repo,
              branch |-> fetch.branches[n]]
      /\ fetch.result.kind # ""
           => /\ fetch.result.kind = "temp"
              /\ fetch.extracted
              /\ fetch.result.path
                   = <<"tmp", "/">> \o fetch.ref.owner \o <<"-">>
                       \o fetch.ref.repo

C29_Witness ==
    /\ fetch.pc = "done"
    /\ fetch.result.kind = "temp"
    /\ fetch.ref.branch = <<"dev">>
    /\ fetch.ref.subpath = <<"a", "/", "a">>
    /\ Len(fetch.attempts) = 1

(***************************************************************************)
(* installCommand with its options and the persisted configuration: the    *)
(* targets of step 2 and the method of step 7.                             *)
(***************************************************************************)
\* config.json as an install run may find it: absent, unreadable, or with
\* any of the two keys, the method possibly one the tool does not know
InstallConfigs ==
    {NoConfigFile, [exists |-> TRUE, readable |-> FALSE, content |-> Empty]}
      \cup { [exists |-> TRUE, readable |-> TRUE, content |-> c] :
               c \in { x \in UNION { [ks -> {".cursor"} \cup Methods] :
                                       ks \in SUBSET ConfigKeys } :
                         /\ "defaultTarget" \in DOMAIN x
                              => x["defaultTarget"] = ".cursor"
                         /\ "linkMethod" \in DOMAIN x
                              => x["linkMethod"] \in Methods } }

\* --target and --method of install and update; "" when not given
InstallOptions ==
    [show : {FALSE}, target : {"", ".claude", ".cursor"},
     method : {""} \cup Methods]

Given(config, key) == key \in DOMAIN config /\ config[key] # ""

ResolveTargets_ConfigFirst(options, config, prompted) ==
    IF Given(config, "defaultTarget") THEN <<config["defaultTarget"]>>
    ELSE IF options.target # "" THEN <<options.target>>
    ELSE prompted

\* step 2: options.target, else config.defaultTarget, else selectTargets()
ResolveTargets(options, config, prompted) ==
    IF options.target # "" THEN <<options.target>>
    ELSE IF Given(config, "defaultTarget") THEN <<config["defaultTarget"]>>
    ELSE prompted

\* the target prompt is shown
TargetsPrompted(options, config) ==
    options.target = "" /\ ~Given(config, "defaultTarget")

\* const method = options.method || config.linkMethod || 'symlink'
ResolveMethod(options, config) ==
    IF options.method # "" THEN options.method
    ELSE IF Given(config, "linkMethod") THEN config["linkMethod"]
    ELSE "symlink"

\* Steps 1-4 with the options and the configuration: as InstallStart, the
\* targets and the method being resolved from them; prompted is the answer
\* to the target prompt, used when the prompt is shown.
InstallResolved(mode, all, options, prompted, tps, repo) ==
    /\ pc = "idle"
    /\ \E config \in {GetConfig(configFile)} :
         /\ TargetsPrompted(options, config) \/ prompted = <<".claude">>
         /\ configRun' =
              [cmd |-> mode, options |-> options, before |-> configFile,
               loaded |-> config,
               messages |-> IF TargetsPrompted(options, config)
                              THEN <<"selectTargets">> ELSE <<>>,
               exit |-> 0, writes |-> 0]
         /\ opts' = [mode |-> mode, all |-> all,
                     method |-> ResolveMethod(options, config)]
         /\ targetKeys' = ResolveTargets(options, config, prompted)
    /\ pc' = "select"
    /\ types' = tps
    /\ available' = [t \in SeqToSet(tps) |-> Scan(t, repo)]
    /\ typeIdx' = 1
    /\ selected' = Empty
    /\ existenceMaps' = Empty
    /\ targetIdx' = 0
    /\ pairIdx' = 0
    /\ summary' = NoSummary
    /\ summaries' = <<>>
    /\ processed' = <<>>
    /\ fsAtStart' = fs
    /\ outcome' = ""
    /\ exitCode' = 0
    /\ lastCall' = NoCall
    /\ UNCHANGED <<fs, platform, prevCall, faults>>
    /\ UNCHANGED <<input, parsed, fetch, configFile, inFlight, invocations>>

InitOptions ==
    /\ InitRun({Join(TargetDir(".cursor", "rules"), "a")})
    /\ input = <<>>
    /\ parsed = NoParse
    /\ fetch = NoFetch
    /\ configFile \in InstallConfigs
    /\ configRun = NoConfigRun
    /\ invocations = Empty

NextOptions ==
    \/ \E mode \in Modes, options \in InstallOptions,
          prompted \in TargetKeyChoices :
            InstallResolved(mode, TRUE, options, prompted, <<"rules">>,
                            {<<"rules", "a.md">>})
    \/ \E selectedIds \in SUBSET {"a", "b"} : SelectItems(selectedIds)
    \/ \E proceed \in BOOLEAN : Confirm(proceed)
    \/ \E io \in IOOutcomes : ProcessPair(io)
    \/ Cancel
    \/ Fail

SpecOptions == InitOptions /\ [][NextOptions]_vars

\* C30: the targets are [--target] when the option is given, else
\* [config.defaultTarget] when it is set, else the answer to the target
\* prompt, which is shown in that case only; with the option or a default
\* exactly one target is processed.  The method is --method when given,
\* else config.linkMethod when set, else 'symlink', and a call with a
\* method other than 'symlink' attempts no symlink and makes a copy.
C30_OptionPrecedence ==
    configRun.cmd \in Modes =>
      LET o == configRun.options
          c == configRun.loaded
          prompted == configRun.messages = <<"selectTargets">>
      IN  /\ c = (IF configFile.exists /\ configFile.readable
                    THEN configFile.content ELSE Empty)
          /\ o.target # "" => (targetKeys = <<o.target>> /\ ~prompted)
          /\ (o.target = "" /\ "defaultTarget" \in DOMAIN c)
               => (targetKeys = <<c["defaultTarget"]>> /\ ~prompted)
          /\ (o.target = "" /\ "defaultTarget" \notin DOMAIN c)
               => (prompted /\ targetKeys \in TargetKeyChoices)
          /\ (~prompted /\ outcome = "complete")
               => (Len(summaries) = 1 /\ Len(processed) = Len(Flat))
          /\ o.method # "" => opts.method = o.method
          /\ (o.method = "" /\ "linkMethod" \in DOMAIN c)
               => opts.method = c["linkMethod"]
          /\ (o.method = "" /\ "linkMethod" \notin DOMAIN c)
               => opts.method = "symlink"
          /\ lastCall.made =>
               /\ lastCall.method = opts.method
               /\ opts.method # "symlink" =>
                    /\ ~Issued(lastCall.ops, "symlink")
                    /\ (~lastCall.threw /\ lastCall.result.success)
                         => /\ lastCall.result.method = "copy"
                            /\ fs[lastCall.target]
                                 = Entry("copy", lastCall.source)

C30_Witness ==
    /\ configRun.cmd = "install"
    /\ outcome = "complete"
    /\ configRun.options.target = ".claude"
    /\ configRun.options.method = ""
    /\ configRun.loaded = [k \in ConfigKeys |->
                             IF k = "defaultTarget" THEN ".cursor"
                                                    ELSE "other"]
    /\ targetKeys = <<".claude">>
    /\ lastCall.made /\ lastCall.result.success
    /\ lastCall.result.method = "copy"

====
